---- MODULE Spec2Model ----
(***************************************************************************)
(* NURA-AI: the agentic tool-call loop of services/geminiService           *)
(* (sendMessageToGemini) and the App component that drives it              *)
(* (handleSendMessage, handleToolCall, voice recognition, speech).         *)
(*                                                                         *)
(* The specifications share the same variables and the same translation   *)
(* of sendMessageToGemini:                                                 *)
(*   Spec     one sendMessageToGemini call with an arbitrary onToolCall    *)
(*            executor (it may resolve with a value, resolve with nothing   *)
(*            or reject) against an arbitrary backend;                     *)
(*   AppSpec  the App component: several handleSendMessage calls, with      *)
(*            handleToolCall as the executor, and the UI events.           *)
(*   AppFairSpec  AppSpec with the fairness of timers and utterance events. *)
(* JavaScript runs a handler to its next await without interleaving, so     *)
(* every action is one such run.                                           *)
(***************************************************************************)
EXTENDS Integers, Sequences, FiniteSets, TLC

(* ------------------------------ bounds -------------------------------- *)
\* handleSendMessage calls made in AppSpec
MaxSubmissions == 2
\* function calls one model turn carries at most
MaxBatch == 2
\* tool-carrying turns the backend answers one call with in Spec
MaxRounds == 9
\* tool-carrying turns the backend answers one submission with in AppSpec
AppMaxRounds == 1

Subs == 1..MaxSubmissions

(* --------------------------- JavaScript values ------------------------- *)
\* a falsy call.name (the field is absent or the empty string)
NoName == ""
\* a falsy call.id (the field is absent or the empty string)
NoId == ""
\* a falsy call.args (the field is absent)
NoArgs == "noargs"
\* the {} that  call.args || {}  passes on
EmptyArgs == "{}"
\* a falsy response.text (undefined or the empty string)
NoText == ""

\* tools: the three function declarations registered with the session
Registry == {"checkVitals", "searchMedicalDatabase", "scheduleAppointment"}

\* FunctionCall parts (name, id and args are all optional in the SDK's type)
Call(n, i, a) == [name |-> n, id |-> i, args |-> a]
\* the function calls the backend draws a turn from: one without a name, a
\* registered tool without id and args, one with both, and an unknown tool
Calls ==
    {Call(NoName, "a", "args"),
     Call("checkVitals", NoId, NoArgs),
     Call("scheduleAppointment", "b", "args"),
     Call("unknownTool", "a", NoArgs)}
Names == Registry \cup {NoName, "unknownTool"}
Texts == {"t1", "t2"}
UserTexts == {"hello"}
BackendErrors == {"503 unavailable", "429 rate limit"}

BatchesOver(calls) == UNION {[1..n -> calls] : n \in 0..MaxBatch}
Batches == BatchesOver(Calls)

\* A model turn (GenerateContentResponse): hasParts is whether
\* candidates[0].content.parts exists, calls the functionCall parts in
\* order, text the response.text getter.
NoPartsTurn == [hasParts |-> FALSE, calls |-> <<>>, text |-> NoText]
TurnsOver(batches) ==
    {NoPartsTurn} \cup
    {[hasParts |-> TRUE, calls |-> b, text |-> t] :
        b \in batches, t \in Texts \cup {NoText}}
Turns == TurnsOver(Batches)
\* before the first turn has arrived
NoResponse == [hasParts |-> FALSE, calls |-> <<>>, text |-> "none yet"]

\* payloads of function responses: one key and its value
Payload(k, v) == [key |-> k, val |-> v]
\* a falsy executor result (undefined, null)
Undefined == Payload("", "")
ToolValues == {Payload("data", "v")}

\* what onToolCall's promise settles with
Resolve(v) == [ok |-> TRUE, value |-> v, nullish |-> FALSE, message |-> ""]
\* a rejection: the reason is nullish (reject() with undefined or null), or
\* has a message property that may be falsy (a non-Error, Error(""))
Reject(isNullish, m) ==
    [ok |-> FALSE, value |-> Undefined, nullish |-> isNullish, message |-> m]
Outcomes ==
    {Resolve(v) : v \in ToolValues \cup {Undefined}} \cup
    {Reject(FALSE, "boom"), Reject(FALSE, ""), Reject(TRUE, "")}

NoSent == [kind |-> "none", text |-> "", parts |-> <<>>]

(* ------------------------------ state --------------------------------- *)
VARIABLES
    chatSession,   \* geminiService: the module-level session (FALSE is null)
    pc,            \* per call of sendMessageToGemini: where it is suspended
    sent,          \* per call: the argument of its chatSession.sendMessage in flight
    response,      \* per call: the local variable response
    idx,           \* per call: position in functionCalls of the awaited onToolCall
    replyParts,    \* per call: the local variable replyParts
    result,        \* per call: the string it resolved with
    error,         \* per call: what it rejected with
    rounds,        \* per call: sendMessage calls made with function responses
    messages,      \* App: the messages state
    status,        \* App: the status state
    isListening,   \* App: the isListening state
    vitals,        \* App: whether the vitals state is set
    recognition,   \* the SpeechRecognition object of recognitionRef
    speech,        \* the utterance of window.speechSynthesis ("absent" when
                   \* the browser has no speechSynthesis, so synthRef.current
                   \* is undefined)
    executed,      \* per tool name: handleToolCall bodies run so far
    settled,       \* per call: what onToolCall settled with, for each part of
                   \* the reply being built or in flight (history)
    failure        \* per call: what chatSession.sendMessage rejected with (history)

svcVars == <<chatSession, pc, sent, response, idx, replyParts, result, error, rounds>>
appVars == <<messages, status, isListening, vitals, recognition, speech, executed>>
vars == <<chatSession, pc, sent, response, idx, replyParts, result, error, rounds,
          messages, status, isListening, vitals, recognition, speech, executed,
          settled, failure>>

Fallback == "I have completed the task."
ToolExecutionFailed == "Tool execution failed"
NotInitialized == "Chat session not initialized."
TypeErrorRead == "TypeError: cannot read properties of undefined"

Set(f, s, v) == [f EXCEPT ![s] = v]

(* ------------------- geminiService: sendMessageToGemini ---------------- *)
\* the functionCalls of a turn: none when the turn has no parts
FunctionCalls(r) == IF r.hasParts THEN r.calls ELSE <<>>

\* a loop that takes the named calls from the last one backwards
NextNamedLast(fc, i) ==
    LET named == {j \in i..Len(fc) : fc[j].name # NoName}
    IN  IF named = {} THEN 0 ELSE CHOOSE j \in named : \A k \in named : j >= k

\* for (const call of functionCalls) { if (!call.name) continue; ... }:
\* the first position from i on whose call has a name, 0 when there is none
NextNamed(fc, i) ==
    LET named == {j \in i..Len(fc) : fc[j].name # NoName}
    IN  IF named = {} THEN 0 ELSE CHOOSE j \in named : \A k \in named : j <= k

\* call.args || {}
ArgsPassed(call) == IF call.args # NoArgs THEN call.args ELSE EmptyArgs

\* the (toolName, args) the awaited onToolCall was called with
Invocation(s) ==
    LET call == FunctionCalls(response[s])[idx[s]]
    IN  [toolName |-> call.name, args |-> ArgsPassed(call)]

\* catch (error) { result = { error: error.message || "Tool execution failed" } }
ErrorResult(o) ==
    Payload("error", IF o.message # "" THEN o.message ELSE ToolExecutionFailed)

\* the value of the local variable result once onToolCall has settled with o
\* (o is no nullish rejection)
ToolResult(o) == IF o.ok THEN o.value ELSE ErrorResult(o)

\* a FunctionResponse that carries result as it is
FunctionResponsePartNoDefault(call, res) ==
    [name |-> call.name,
     response |-> res,
     id |-> IF call.id # NoId THEN call.id ELSE NoId]

\* the FunctionResponse built for call from result: response is
\* result || {result: "ok"}, and id is set only if (call.id)
FunctionResponsePart(call, res) ==
    [name |-> call.name,
     response |-> IF res # Undefined THEN res ELSE Payload("result", "ok"),
     id |-> IF call.id # NoId THEN call.id ELSE NoId]

\* a return of response.text alone
FinalTextNoFallback(r) == r.text

\* return response.text || "I have completed the task."
FinalText(r) == IF r.text # NoText THEN r.text ELSE Fallback

\* the loop is left by a break and the function returns
Return(s, r) ==
    /\ pc' = Set(pc, s, "resolved")
    /\ result' = Set(result, s, FinalText(r))
    /\ idx' = Set(idx, s, 0)
    /\ replyParts' = Set(replyParts, s, <<>>)
    /\ sent' = Set(sent, s, NoSent)
    /\ UNCHANGED <<error, rounds>>

\* catch (error) { console.error(...); throw error; }
Throw(s, e) ==
    /\ pc' = Set(pc, s, "rejected")
    /\ error' = Set(error, s, e)
    /\ idx' = Set(idx, s, 0)
    /\ replyParts' = Set(replyParts, s, <<>>)
    /\ sent' = Set(sent, s, NoSent)
    /\ UNCHANGED <<result, rounds>>

\* a send of the function responses that repeats the user's text
SendResultsWithText(s, reply) ==
    /\ pc' = Set(pc, s, "sending")
    /\ sent' = Set(sent, s, [kind |-> "text", text |-> "hello", parts |-> reply])
    /\ rounds' = Set(rounds, s, rounds[s] + 1)
    /\ idx' = Set(idx, s, 0)
    /\ replyParts' = Set(replyParts, s, <<>>)
    /\ UNCHANGED <<result, error>>

\* response = await chatSession.sendMessage({ message: replyParts })
SendResults(s, reply) ==
    /\ pc' = Set(pc, s, "sending")
    /\ sent' = Set(sent, s, [kind |-> "results", text |-> "", parts |-> reply])
    /\ rounds' = Set(rounds, s, rounds[s] + 1)
    /\ idx' = Set(idx, s, 0)
    /\ replyParts' = Set(replyParts, s, <<>>)
    /\ UNCHANGED <<result, error>>

\* The for loop over functionCalls of turn r, resumed at position i with the
\* reply parts built so far, up to its next await: the next call that has a
\* name is handed to onToolCall; when none is left the reply is sent, or,
\* when the reply is empty, the loop is left.
RunLoop(s, r, i, reply) ==
    LET j == NextNamed(FunctionCalls(r), i)
    IN  IF j # 0
        THEN /\ pc' = Set(pc, s, "tool")
             /\ idx' = Set(idx, s, j)
             /\ replyParts' = Set(replyParts, s, reply)
             /\ sent' = Set(sent, s, NoSent)
             /\ UNCHANGED <<result, error, rounds>>
        ELSE IF Len(reply) > 0
             THEN SendResults(s, reply)
             ELSE Return(s, r)

\* a sendMessageToGemini that sends without testing chatSession
SendMessageToGeminiUnchecked(s, message) ==
    /\ pc[s] = "none"
    /\ pc' = Set(pc, s, "sending")
    /\ sent' = Set(sent, s, [kind |-> "text", text |-> message, parts |-> <<>>])
    /\ UNCHANGED <<idx, replyParts, result, error, rounds>>
    /\ UNCHANGED <<chatSession, response>>

\* sendMessageToGemini(message, onToolCall) up to its first await
SendMessageToGemini(s, message) ==
    /\ pc[s] = "none"
    /\ IF ~chatSession
       THEN Throw(s, NotInitialized)
       ELSE /\ pc' = Set(pc, s, "sending")
            /\ sent' = Set(sent, s, [kind |-> "text", text |-> message, parts |-> <<>>])
            /\ UNCHANGED <<idx, replyParts, result, error, rounds>>
    /\ UNCHANGED <<chatSession, response>>

\* chatSession.sendMessage resolves with the turn: while (true) { ... }
OnResponse(s, turn) ==
    /\ pc[s] = "sending"
    /\ response' = Set(response, s, turn)
    /\ IF FunctionCalls(turn) = <<>>
       THEN Return(s, turn)
       ELSE RunLoop(s, turn, 1, <<>>)
    /\ UNCHANGED chatSession

\* a catch that sends the same message again instead of rethrowing
OnBackendErrorRetried(s, e) ==
    /\ pc[s] = "sending"
    /\ UNCHANGED svcVars

\* chatSession.sendMessage rejects with e: the outer catch rethrows it
OnBackendError(s, e) ==
    /\ pc[s] = "sending"
    /\ Throw(s, e)
    /\ UNCHANGED <<chatSession, response>>

\* the awaited onToolCall settles with o. A nullish rejection makes
\* error.message throw inside the inner catch, which the outer catch rethrows.
OnToolSettled(s, o) ==
    /\ pc[s] = "tool"
    /\ LET fc == FunctionCalls(response[s])
           call == fc[idx[s]]
       IN  IF ~o.ok /\ o.nullish
           THEN Throw(s, TypeErrorRead)
           ELSE RunLoop(s, response[s], idx[s] + 1,
                        Append(replyParts[s], FunctionResponsePart(call, ToolResult(o))))
    /\ UNCHANGED <<chatSession, response>>

\* initializeChat(apiKey): throws on a missing key, else creates the session
InitializeChat(apiKey) ==
    /\ IF apiKey = "" THEN UNCHANGED chatSession ELSE chatSession' = TRUE
    /\ UNCHANGED <<pc, sent, response, idx, replyParts, result, error, rounds>>

(* --------------- Spec: one call, any executor, any backend ------------- *)
\* the one sendMessageToGemini call Spec follows
TheCall == CHOOSE s \in Subs : \A t \in Subs : s <= t

\* the backend stops asking for tools after cap tool-carrying turns
WithinRounds(s, turn, cap) == NextNamed(FunctionCalls(turn), 1) # 0 => rounds[s] < cap

Init ==
    /\ chatSession = FALSE
    /\ pc = [s \in Subs |-> "none"]
    /\ sent = [s \in Subs |-> NoSent]
    /\ response = [s \in Subs |-> NoResponse]
    /\ idx = [s \in Subs |-> 0]
    /\ replyParts = [s \in Subs |-> <<>>]
    /\ result = [s \in Subs |-> ""]
    /\ error = [s \in Subs |-> ""]
    /\ rounds = [s \in Subs |-> 0]
    /\ messages = <<>>
    /\ status = "idle"
    /\ isListening = FALSE
    /\ vitals = FALSE
    /\ recognition = "off"
    /\ speech = "none"
    /\ executed = [n \in Names |-> 0]
    /\ settled = [s \in Subs |-> <<>>]
    /\ failure = [s \in Subs |-> ""]

\* the host calls initializeChat before the call, with or without a key
Setup ==
    \E k \in {"", "key"} :
        /\ pc[TheCall] = "none" /\ ~chatSession
        /\ InitializeChat(k)
        /\ UNCHANGED <<appVars, settled, failure>>

\* the host calls sendMessageToGemini
Submit ==
    \E m \in UserTexts :
        /\ SendMessageToGemini(TheCall, m)
        /\ UNCHANGED <<appVars, settled, failure>>

\* the backend answers the call in flight with a turn
BackendTurn ==
    \E t \in Turns :
        /\ WithinRounds(TheCall, t, MaxRounds)
        /\ OnResponse(TheCall, t)
        /\ settled' = Set(settled, TheCall, <<>>)
        /\ UNCHANGED <<appVars, failure>>

\* the backend call in flight fails
BackendFails ==
    \E e \in BackendErrors :
        /\ pc[TheCall] = "sending"
        /\ failure' = Set(failure, TheCall, e)
        /\ OnBackendError(TheCall, e)
        /\ UNCHANGED <<appVars, settled>>

\* the executor settles the invocation awaited
ToolSettles ==
    \E o \in Outcomes :
        /\ pc[TheCall] = "tool"
        /\ settled' = Set(settled, TheCall, Append(settled[TheCall], o))
        /\ OnToolSettled(TheCall, o)
        /\ UNCHANGED <<appVars, failure>>

Next == Setup \/ Submit \/ BackendTurn \/ BackendFails \/ ToolSettles

Spec == Init /\ [][Next]_vars

(* ------------------------------- App ---------------------------------- *)
\* a Message of the messages state; of is the handleSendMessage call it was
\* appended for (history, 0 for the mount effect). The text of a tool-use
\* message is the tool name put into "Accessing Module: <name>...", that of
\* a system message of a call the errorMessage put after "CRITICAL ERROR: ".
Message(r, t, tool, s) == [role |-> r, text |-> t, isToolUse |-> tool, of |-> s]

\* a handleToolCall that names a fixed module in its message
ToolUseMessageUnnamed(toolName, s) == Message("model", "module", TRUE, s)

\* setMessages of handleToolCall, run when sendMessageToGemini invokes it
ToolUseMessage(toolName, s) == Message("model", toolName, TRUE, s)

\* handleToolCall after its delay: the value it resolves with
HandleToolCallValue(toolName, args) ==
    IF toolName = "checkVitals" THEN Payload("vitals", "summary")
    ELSE IF toolName = "searchMedicalDatabase" THEN Payload("results", args)
    ELSE IF toolName = "scheduleAppointment" THEN Payload("confirmation", args)
    ELSE Payload("error", "Unknown tool")

\* error.message || "Connection Error"
ErrorMessage(e) == IF e # "" THEN e ELSE "Connection Error"

\* the turns App is driven with: the terminal turns, and turns asking for
\* one tool, two tools at once, an unknown tool and a call without a name
ToolTurn(calls) == [hasParts |-> TRUE, calls |-> calls, text |-> NoText]
AppTurns ==
    {NoPartsTurn,
     [hasParts |-> TRUE, calls |-> <<>>, text |-> "t1"],
     ToolTurn(<<Call("checkVitals", NoId, NoArgs)>>),
     ToolTurn(<<Call("checkVitals", NoId, NoArgs),
                Call("searchMedicalDatabase", "a", "args")>>),
     ToolTurn(<<Call("scheduleAppointment", "b", "args"),
                Call("checkVitals", NoId, NoArgs)>>),
     ToolTurn(<<Call("unknownTool", "a", NoArgs)>>),
     ToolTurn(<<Call(NoName, "a", "args"),
                Call("scheduleAppointment", NoId, "args")>>),
     ToolTurn(<<Call(NoName, "a", "args")>>)}

\* speakResponse(text): it returns at once without synthRef.current, else it
\* cancels the utterance being spoken and queues a new one
SpeakResponse == IF speech = "absent" THEN speech ELSE "pending"

\* a handleSendMessage whose catch appends no message
AfterRunSilentCatch(s, base) ==
    IF pc'[s] = "tool"
    THEN /\ messages' = Append(base, ToolUseMessage(Invocation(s)'.toolName, s))
         /\ UNCHANGED speech
    ELSE IF pc'[s] = "resolved"
    THEN /\ messages' = Append(base, Message("model", result'[s], FALSE, s))
         /\ speech' = SpeakResponse
    ELSE /\ messages' = base
         /\ UNCHANGED speech

\* What App does when the run of sendMessageToGemini for call s has reached
\* its next await or has settled: the synchronous start of handleToolCall
\* (the tool-use message), or the rest of handleSendMessage (the model
\* message and speakResponse, or the system message and status idle).
AfterRun(s, base) ==
    IF pc'[s] = "tool"
    THEN /\ messages' = Append(base, ToolUseMessage(Invocation(s)'.toolName, s))
         /\ UNCHANGED speech
    ELSE IF pc'[s] = "resolved"
    THEN /\ messages' = Append(base, Message("model", result'[s], FALSE, s))
         /\ speech' = SpeakResponse
    ELSE IF pc'[s] = "rejected"
    THEN /\ messages' = Append(base, Message("system", ErrorMessage(error'[s]), FALSE, s))
         /\ UNCHANGED speech
    ELSE /\ messages' = base
         /\ UNCHANGED speech

\* the status after that run, from the status st set before it
StatusAfterRun(s, st) == IF pc'[s] = "rejected" THEN "idle" ELSE st

\* the next handleSendMessage call
NextSub(s) == pc[s] = "none" /\ \A t \in Subs : t < s => pc[t] # "none"

\* handleSendMessage(text) up to the await of sendMessageToGemini (and past
\* it when the session is missing)
HandleSendMessage(s, text) ==
    /\ NextSub(s)
    /\ SendMessageToGemini(s, text)
    /\ AfterRun(s, Append(messages, Message("user", text, FALSE, s)))
    /\ status' = StatusAfterRun(s, "thinking")
    /\ UNCHANGED <<vitals, executed, settled, failure>>

\* ChatInterface.handleSubmit: the form is submitted with a typed text
TypedSubmit ==
    \E s \in Subs, text \in UserTexts :
        /\ status # "thinking"
        /\ HandleSendMessage(s, text)
        /\ UNCHANGED <<isListening, recognition>>

\* recognition.onresult: a transcript arrives
RecognitionResult ==
    \E s \in Subs, transcript \in UserTexts :
        /\ recognition \in {"on", "stopping"}
        /\ recognition' = "ending"
        /\ isListening' = FALSE
        /\ HandleSendMessage(s, transcript)

\* recognition.onerror
RecognitionError ==
    /\ recognition \in {"on", "stopping"}
    /\ recognition' = "ending"
    /\ isListening' = FALSE
    /\ status' = "idle"
    /\ UNCHANGED <<svcVars, messages, vitals, speech, executed, settled, failure>>

\* recognition.onend: its closure holds the status of the first render,
\* 'idle', so its test of status === 'listening' never succeeds
RecognitionEnd ==
    /\ recognition # "off"
    /\ recognition' = "off"
    /\ isListening' = FALSE
    /\ UNCHANGED <<svcVars, messages, status, vitals, speech, executed, settled, failure>>

\* handleToggleVoice, from the microphone button (disabled while
\* isProcessing) or the CANCEL button of the listening overlay
HandleToggleVoice ==
    /\ status # "thinking" \/ isListening
    /\ IF isListening
       THEN /\ recognition' = IF recognition = "on" THEN "stopping" ELSE recognition
            /\ isListening' = FALSE
            /\ status' = "idle"
       ELSE IF recognition = "off"
            THEN /\ recognition' = "on"
                 /\ isListening' = TRUE
                 /\ status' = "listening"
            ELSE UNCHANGED <<recognition, isListening, status>>
    /\ UNCHANGED <<svcVars, messages, vitals, speech, executed, settled, failure>>

\* utterance.onstart
SpeechStart ==
    /\ speech = "pending"
    /\ speech' = "speaking"
    /\ status' = "speaking"
    /\ UNCHANGED <<svcVars, messages, isListening, vitals, recognition, executed, settled, failure>>

\* utterance.onend
SpeechEnd ==
    /\ speech = "speaking"
    /\ speech' = "none"
    /\ status' = "idle"
    /\ UNCHANGED <<svcVars, messages, isListening, vitals, recognition, executed, settled, failure>>

\* utterance.onerror
SpeechError ==
    /\ speech \in {"pending", "speaking"}
    /\ speech' = "none"
    /\ status' = "idle"
    /\ UNCHANGED <<svcVars, messages, isListening, vitals, recognition, executed, settled, failure>>

\* the backend answers the call in flight of submission s with a turn
AppBackendTurn ==
    \E s \in Subs, t \in AppTurns :
        /\ WithinRounds(s, t, AppMaxRounds)
        /\ OnResponse(s, t)
        /\ settled' = Set(settled, s, <<>>)
        /\ AfterRun(s, messages)
        /\ status' = StatusAfterRun(s, status)
        /\ UNCHANGED <<isListening, vitals, recognition, executed, failure>>

\* the backend call in flight of submission s fails
AppBackendFails ==
    \E s \in Subs, e \in BackendErrors :
        /\ pc[s] = "sending"
        /\ failure' = Set(failure, s, e)
        /\ OnBackendError(s, e)
        /\ AfterRun(s, messages)
        /\ status' = StatusAfterRun(s, status)
        /\ UNCHANGED <<isListening, vitals, recognition, executed, settled>>

\* the 800 ms timer of the handleToolCall that submission s awaits fires:
\* the tool body runs and handleToolCall resolves
HandleToolCallResumes ==
    \E s \in Subs :
        /\ pc[s] = "tool"
        /\ LET inv == Invocation(s)
               o == Resolve(HandleToolCallValue(inv.toolName, inv.args))
           IN  /\ vitals' = (vitals \/ inv.toolName = "checkVitals")
               /\ executed' = [executed EXCEPT ![inv.toolName] = @ + 1]
               /\ settled' = Set(settled, s, Append(settled[s], o))
               /\ OnToolSettled(s, o)
        /\ AfterRun(s, messages)
        /\ status' = StatusAfterRun(s, status)
        /\ UNCHANGED <<isListening, recognition, failure>>

\* App after its mount effect: initChat has run, with or without
\* VITE_API_KEY, the recognition object exists, and the browser has
\* window.speechSynthesis or not
AppInit ==
    /\ chatSession \in BOOLEAN
    /\ pc = [s \in Subs |-> "none"]
    /\ sent = [s \in Subs |-> NoSent]
    /\ response = [s \in Subs |-> NoResponse]
    /\ idx = [s \in Subs |-> 0]
    /\ replyParts = [s \in Subs |-> <<>>]
    /\ result = [s \in Subs |-> ""]
    /\ error = [s \in Subs |-> ""]
    /\ rounds = [s \in Subs |-> 0]
    /\ messages = IF chatSession
                  THEN <<Message("model", "welcome", FALSE, 0)>>
                  ELSE <<Message("system", "VITE_API_KEY is missing", FALSE, 0)>>
    /\ status = "idle"
    /\ isListening = FALSE
    /\ vitals = FALSE
    /\ recognition = "off"
    /\ speech \in {"none", "absent"}
    /\ executed = [n \in Names |-> 0]
    /\ settled = [s \in Subs |-> <<>>]
    /\ failure = [s \in Subs |-> ""]

AppNext ==
    \/ TypedSubmit \/ RecognitionResult \/ RecognitionError \/ RecognitionEnd
    \/ HandleToggleVoice \/ SpeechStart \/ SpeechEnd \/ SpeechError
    \/ AppBackendTurn \/ AppBackendFails \/ HandleToolCallResumes

AppSpec == AppInit /\ [][AppNext]_vars

\* AppSpec with what the browser's event loop guarantees: the 800 ms timer of
\* a handleToolCall fires, a queued utterance starts and a spoken one ends.
\* Nothing makes the backend answer, and no user or recognition event is due.
AppFairSpec ==
    /\ AppSpec
    /\ WF_vars(HandleToolCallResumes)
    /\ WF_vars(SpeechStart)
    /\ WF_vars(SpeechEnd)

(* ------------------------------ claims -------------------------------- *)
\* the reply of call s is in flight: the function responses built for the
\* function calls of response[s]
ReplyInFlight(s) == pc[s] = "sending" /\ sent[s].kind = "results"

\* C1: the reply handed to the next chatSession.sendMessage holds exactly one
\* function response per tool-call request of the turn, the i-th response
\* naming the i-th request, whatever the requests' names are.
C1_OneResponsePerRequest ==
    \A s \in Subs :
        ReplyInFlight(s) =>
            LET fc == FunctionCalls(response[s])
                parts == sent[s].parts
            IN  /\ Len(parts) = Len(fc)
                /\ \A i \in 1..Len(parts) : parts[i].name = fc[i].name

\* the maximum number of tool-exchange rounds spec.md section 4.4 asks for
ConfiguredMaxRounds == 8

\* C2: a call never makes more than the configured maximum of tool-exchange
\* rounds, however long the backend keeps asking for tools.
C2_RoundsBounded ==
    \A s \in Subs : rounds[s] <= ConfiguredMaxRounds

\* C3: a failing executor call yields a function response with an error
\* payload, and sendMessageToGemini never rejects because of it: it rejects
\* only with a backend failure or the missing session.
C3_ToolFailureIsolated ==
    \A s \in Subs :
        /\ pc[s] = "rejected" => error[s] \in BackendErrors \cup {NotInitialized}
        /\ ReplyInFlight(s) =>
               \A i \in 1..Len(sent[s].parts) :
                   ~settled[s][i].ok => sent[s].parts[i].response.key = "error"

\* C4: the executor is never invoked for a name that is no registered tool,
\* and the function response for such a name carries an error description.
C4_UnknownToolNotInvoked ==
    \A s \in Subs :
        /\ pc[s] = "tool" => Invocation(s).toolName \in Registry
        /\ ReplyInFlight(s) =>
               \A i \in 1..Len(sent[s].parts) :
                   sent[s].parts[i].name \notin Registry
                       => sent[s].parts[i].response.key = "error"

\* C5: position by position, the reply carries the id of the request at that
\* position, and no id where the request has none.
C5_IdsEchoedByPosition ==
    \A s \in Subs :
        ReplyInFlight(s) =>
            LET fc == FunctionCalls(response[s])
                parts == sent[s].parts
            IN  /\ Len(parts) = Len(fc)
                /\ \A i \in 1..Len(parts) : parts[i].id = fc[i].id

\* C6: once the latest turn carries no tool-call request the call has
\* resolved with that turn's text, or with the fallback string when the turn
\* has no text; the string is not empty, no executor call was made for the
\* turn and no backend call is in flight.
C6_TerminalTurnReturnsItsText ==
    \A s \in Subs :
        (response[s] # NoResponse /\ FunctionCalls(response[s]) = <<>>) =>
            /\ pc[s] = "resolved"
            /\ IF response[s].text = NoText
               THEN result[s] = "I have completed the task."
               ELSE result[s] = response[s].text
            /\ result[s] # ""
            /\ settled[s] = <<>> /\ idx[s] = 0
            /\ sent[s] = NoSent

\* after a tool round a turn with parts but neither function call nor text
\* arrives, and the fallback string is returned
C6_Witness ==
    /\ pc[TheCall] = "resolved"
    /\ rounds[TheCall] >= 1
    /\ response[TheCall].hasParts
    /\ FunctionCalls(response[TheCall]) = <<>>
    /\ response[TheCall].text = NoText
    /\ result[TheCall] = Fallback

\* C7: the call resolves only on a turn whose tool-call request sequence is
\* empty, so the text it returns is never that of a turn carrying requests.
C7_EndsOnlyOnEmptyRequests ==
    \A s \in Subs :
        pc[s] = "resolved" => FunctionCalls(response[s]) = <<>>

\* C8: once chatSession.sendMessage has failed, the call is rejected with
\* that failure, and from then on no backend call is in flight and no
\* executor call is awaited.
C8_BackendFailurePropagates ==
    \A s \in Subs :
        failure[s] # "" =>
            /\ pc[s] = "rejected"
            /\ error[s] = failure[s]
            /\ sent[s] = NoSent
            /\ idx[s] = 0

\* the backend call that carries tool results fails
C8_Witness ==
    /\ failure[TheCall] = "429 rate limit"
    /\ rounds[TheCall] >= 1
    /\ pc[TheCall] = "rejected"

\* C9: at most one chatSession.sendMessage call of the shared session is in
\* flight at any time.
C9_OneBackendCallInFlight ==
    Cardinality({s \in Subs : pc[s] = "sending"}) <= 1

\* the tool-use messages naming tool n
ToolUseMessages(n) ==
    {i \in 1..Len(messages) : messages[i].isToolUse /\ messages[i].text = n}
\* the handleToolCall invocations of tool n that await their timer
AwaitingTimer(n) ==
    {s \in Subs : pc[s] = "tool" /\ Invocation(s).toolName = n}

\* C10: every handleToolCall invocation has exactly one tool-use message
\* naming its tool, appended before the tool's body runs: for each name the
\* messages naming it are as many as the invocations whose body has run plus
\* those whose body has yet to run.
C10_OneNotificationBeforeExecution ==
    \A n \in Names :
        Cardinality(ToolUseMessages(n)) = executed[n] + Cardinality(AwaitingTimer(n))

\* in a batch of two tools the first has run and the second awaits its
\* timer, both already announced
C10_Witness ==
    \E s \in Subs :
        /\ pc[s] = "tool" /\ idx[s] = 2
        /\ Invocation(s).toolName = "searchMedicalDatabase"
        /\ executed["checkVitals"] = 1
        /\ executed["searchMedicalDatabase"] = 0
        /\ Cardinality(ToolUseMessages("checkVitals")) = 1
        /\ Cardinality(ToolUseMessages("searchMedicalDatabase")) = 1

\* submission s awaits its backend call or its tool execution
InFlight(s) == pc[s] \in {"sending", "tool"}

\* C11: no submission waits for ever: a backend call or a tool execution that
\* never completes is given up after a bounded wait, so every submission in
\* flight eventually resolves or rejects.
C11_EverySubmissionSettles ==
    \A s \in Subs : InFlight(s) ~> (pc[s] \in {"resolved", "rejected"})

\* C12: as long as no session exists (initializeChat was not called, or threw
\* on an empty key) every call made has rejected with the configuration
\* error, and none has made a backend call, received a turn or run a tool.
C12_NoTurnWithoutSession ==
    ~chatSession =>
        \A s \in Subs :
            /\ pc[s] \in {"none", "rejected"}
            /\ pc[s] = "rejected" => error[s] = NotInitialized
            /\ sent[s] = NoSent /\ response[s] = NoResponse
            /\ rounds[s] = 0 /\ settled[s] = <<>> /\ failure[s] = ""

\* the call was made without a session and has rejected
C12_Witness ==
    /\ ~chatSession
    /\ pc[TheCall] = "rejected"
    /\ error[TheCall] = "Chat session not initialized."

\* the calls of a turn that have a name, in order
NamedCalls(fc) == SelectSeq(fc, LAMBDA c : c.name # NoName)

\* C13: the backend call made before any turn has arrived carries the user's
\* text and nothing else; every backend call made after a turn carries no
\* text but only function responses, one for each named request of that
\* latest turn, in order, built from the executor calls made for that turn.
C13_TextFirstThenLatestResults ==
    \A s \in Subs :
        pc[s] = "sending" =>
            IF response[s] = NoResponse
            THEN /\ sent[s].kind = "text"
                 /\ sent[s].text \in UserTexts
                 /\ sent[s].parts = <<>>
                 /\ rounds[s] = 0
            ELSE LET nc == NamedCalls(FunctionCalls(response[s]))
                     parts == sent[s].parts
                 IN  /\ sent[s].kind = "results"
                     /\ sent[s].text = ""
                     /\ rounds[s] >= 1
                     /\ Len(parts) = Len(nc)
                     /\ Len(settled[s]) = Len(nc)
                     /\ \A i \in 1..Len(parts) :
                            parts[i] = FunctionResponsePart(nc[i], ToolResult(settled[s][i]))

\* the third backend call of a call carries the two results of the second
\* turn's requests
C13_Witness ==
    /\ ReplyInFlight(TheCall)
    /\ rounds[TheCall] = 2
    /\ Len(sent[TheCall].parts) = 2
    /\ sent[TheCall].parts[1].name = "checkVitals"
    /\ sent[TheCall].parts[2].name = "unknownTool"

\* the positions of the messages of role r appended by handleSendMessage
\* call s itself (not by a handleToolCall it caused)
OwnMessages(s, r) ==
    {i \in 1..Len(messages) :
        messages[i].of = s /\ messages[i].role = r /\ ~messages[i].isToolUse}
\* the positions of all messages appended for call s
AllMessages(s) == {i \in 1..Len(messages) : messages[i].of = s}

\* C14: a handleSendMessage call has appended one user message, before any
\* other message of the call; once sendMessageToGemini has resolved it has
\* appended one model message with the returned text and no system message,
\* once it has rejected one system message with the error and no model
\* message, in both cases as the last message of the call, and before that
\* neither; the step in which the call rejects sets the status to idle.
C14_OneUserOneTerminalMessage ==
    /\ [](\A s \in Subs :
            LET user == OwnMessages(s, "user")
                model == OwnMessages(s, "model")
                system == OwnMessages(s, "system")
            IN  /\ Cardinality(user) = IF pc[s] = "none" THEN 0 ELSE 1
                /\ \A i \in user : \A j \in AllMessages(s) : i <= j
                /\ Cardinality(model) = IF pc[s] = "resolved" THEN 1 ELSE 0
                /\ Cardinality(system) = IF pc[s] = "rejected" THEN 1 ELSE 0
                /\ \A i \in model :
                       /\ messages[i].text = result[s]
                       /\ \A j \in AllMessages(s) : j <= i
                /\ \A i \in system :
                       /\ messages[i].text = error[s] /\ error[s] # ""
                       /\ \A j \in AllMessages(s) : j <= i)
    /\ [][\A s \in Subs :
            (pc[s] # "rejected" /\ pc'[s] = "rejected") => status' = "idle"]_vars

\* one call has rejected after a tool round and another has resolved, each
\* with its user message and its terminal message
C14_Witness ==
    \E s, t \in Subs :
        /\ pc[s] = "rejected" /\ rounds[s] = 1 /\ failure[s] # ""
        /\ pc[t] = "resolved"
        /\ Cardinality(OwnMessages(s, "system")) = 1
        /\ Cardinality(OwnMessages(t, "model")) = 1

\* no submission awaits its backend call or a tool execution
NoneInFlight == \A s \in Subs : ~InFlight(s)

\* C15: the status is not left at thinking: whenever it is thinking while no
\* submission is in flight, it eventually becomes idle (or a new submission
\* is made).
C15_ThinkingIsLeft ==
    (status = "thinking" /\ NoneInFlight) ~> (status = "idle" \/ ~NoneInFlight)

\* the tool-use messages of call s in the order they were appended: one per
\* handleToolCall invocation, appended when the invocation starts
ToolUseOf(s) == SelectSeq(messages, LAMBDA m : m.of = s /\ m.isToolUse)

\* C16: while call s works on a batch, the executor invocations started for
\* it are those that have settled plus at most the one awaited, they were
\* started in the order of the batch's named requests, and the reply is in
\* flight only when every named request's invocation has settled.
C16_SequentialInRequestOrder ==
    \A s \in Subs :
        (pc[s] = "tool" \/ ReplyInFlight(s)) =>
            LET nc == NamedCalls(FunctionCalls(response[s]))
                all == ToolUseOf(s)
                n == Len(settled[s]) + (IF pc[s] = "tool" THEN 1 ELSE 0)
                started == SubSeq(all, Len(all) - n + 1, Len(all))
            IN  /\ n <= Len(all) /\ n <= Len(nc)
                /\ \A i \in 1..n : started[i].text = nc[i].name
                /\ pc[s] = "tool" => Invocation(s).toolName = nc[n].name
                /\ ReplyInFlight(s) => Len(settled[s]) = Len(nc)

\* the second tool of a batch is awaited after the first has settled
C16_Witness ==
    \E s \in Subs :
        /\ pc[s] = "tool" /\ idx[s] = 2
        /\ Len(settled[s]) = 1
        /\ Len(ToolUseOf(s)) = 2
        /\ Invocation(s).toolName = "checkVitals"

\* C17: every function response in flight has a payload: the executor's
\* value when it resolved with one, {result: "ok"} when it resolved with
\* none, {error: message} when it rejected, with "Tool execution failed" for
\* an empty message; and the executor is called with the request's args, or
\* with {} when the request has none.
C17_PayloadsAndArgsDefined ==
    \A s \in Subs :
        /\ ReplyInFlight(s) =>
               /\ Len(settled[s]) = Len(sent[s].parts)
               /\ \A i \in 1..Len(sent[s].parts) :
                      LET o == settled[s][i]
                          p == sent[s].parts[i].response
                      IN  /\ p # Undefined /\ p.key # ""
                          /\ (o.ok /\ o.value # Undefined) => p = o.value
                          /\ (o.ok /\ o.value = Undefined) => p = [key |-> "result", val |-> "ok"]
                          /\ (~o.ok /\ o.message # "") => p = [key |-> "error", val |-> o.message]
                          /\ (~o.ok /\ o.message = "") =>
                                 p = [key |-> "error", val |-> "Tool execution failed"]
        /\ pc[s] = "tool" =>
               LET call == FunctionCalls(response[s])[idx[s]]
               IN  /\ Invocation(s).args # NoArgs
                   /\ call.args = NoArgs => Invocation(s).args = "{}"
                   /\ call.args # NoArgs => Invocation(s).args = call.args

\* a reply in flight holds the default payload for an executor that resolved
\* with nothing and the fallback error for one that rejected without message
C17_Witness ==
    /\ ReplyInFlight(TheCall)
    /\ Len(sent[TheCall].parts) = 2
    /\ settled[TheCall][1] = Resolve(Undefined)
    /\ sent[TheCall].parts[1].response = [key |-> "result", val |-> "ok"]
    /\ settled[TheCall][2] = Reject(FALSE, "")
    /\ sent[TheCall].parts[2].response.val = "Tool execution failed"
    /\ FunctionCalls(response[TheCall])[1].args = NoArgs

====
